---------------------------- MODULE Spec2Model ----------------------------
(***************************************************************************)
(* UDS over ISO-TP over SLCAN: the client of                                *)
(* python/examples/slcan_uds_standalone.py (SLCANAdapter, SimpleISOTP,      *)
(* SimpleUDSClient) as a state machine.                                     *)
(*                                                                         *)
(* Bytes are the integers 0..255 and a CAN frame is a record               *)
(* [id, data].  A Python Optional is a record with the flag `none`.        *)
(* Every wait loop of the code is split at its iterations: one action      *)
(* is one iteration (one receive_frame poll and the handling of the frame), *)
(* and the expiry of the loop's deadline is an action of its own, enabled   *)
(* at every iteration because the code reads the clock at every iteration.  *)
(***************************************************************************)
EXTENDS Integers, Sequences, FiniteSets, TLC

VARIABLES
    pc,         \* where the client is: idle, wait_fc, send_cf, recv, done
    req,        \* `data` of the send_request call in progress
    reqCount,   \* send_request calls started so far
    remaining,  \* send_receive: `remaining`
    txseq,      \* send_receive: `seq` of the next Consecutive Frame
    fc,         \* send_receive: `fc`, the dict _wait_for_flow_control returned
    rx,         \* _receive_response: buffer, expected_length, seq
    response,   \* send_request: `response`, what send_receive returned
    outcome,    \* how send_request ended: returned bytes or the exception raised
    sent,       \* frames the adapter wrote for the current request, in order
    rxq,        \* frames the adapter will hand to receive_frame, in order
    delivered,  \* frames put on the bus towards the client so far
    ffSeen,     \* history: a First Frame was handled by this _receive_response call
    ffAcked,    \* history: the Flow Control for the last First Frame was written
    cfAccepted, \* history: Consecutive Frames appended to buffer by this call
    badSeq,     \* history: a Consecutive Frame with a wrong sequence number
                \* arrived while a First Frame's message was being reassembled
    pendings,   \* history: responses 7F xx 78 this send_request call was handed
    late,       \* history: whether the oldest frame in the adapter is the
                \* positive response to the call before, which was sent and
                \* ended in TimeoutError; whether that frame completed the
                \* response of this call
    slept,      \* send_receive: microseconds of the last time.sleep
    port,       \* SLCANAdapter: the characters waiting in self.serial, whether
                \* receive_frame is running and its local buffer; history: the
                \* frames receive_frame returned, the frames that arrived
    peer,       \* a second SimpleISOTP (tx_id and rx_id swapped) running
                \* _receive_response on the frames in `sent`
    taken,      \* history: kinds of frames receive_frame handed to
                \* _receive_response between the frames of a segmented
                \* response (one with another CAN id, a Flow Control frame)
    call,       \* the SimpleUDSClient method called and its argument
    main,       \* slcan_uds_standalone.main(): where it is, its arguments
    demo        \* elm327_slcan_demo.main(): where it is, its arguments

vars == <<pc, req, reqCount, remaining, txseq, fc, rx, response, outcome, sent,
          rxq, delivered, ffSeen, ffAcked, cfAccepted, badSeq, pendings, late,
          slept, port, peer, taken, call, main, demo>>

-----------------------------------------------------------------------------
(* Bounds of the model *)

\* frames the bus delivers to the client in one behaviour
MaxFrames == 4
\* send_request calls in one behaviour
MaxRequests == 2
\* loop-back payloads have every length 1..MaxShortLen, and LongLen
MaxShortLen == 22
\* a payload long enough for the sequence number to wrap and for the
\* First Frame's length to need its high nibble
LongLen == 520
\* loop-back payloads are the byte patterns seed, seed+1, ... (mod 256)
MaxSeed == 1

(* Program constants *)

\* --tx-id default 0x7E0
TxId == 2016
\* --rx-id default 0x7E8
RxId == 2024
\* the padding byte b'\xCC'
PadByte == 204
\* SimpleUDSClient.NRC_RESPONSE = 0x7F
NRC_RESPONSE == 127

-----------------------------------------------------------------------------
(* Python values *)

\* Optional[bytes]: None, or the bytes with the return statement they left by
None == [none |-> TRUE, bytes |-> <<>>, via |-> "none"]
Some(b, how) == [none |-> FALSE, bytes |-> b, via |-> how]

\* s[a:b] of a bytes object (0-based, clipped to the object)
Slice(s, a, b) ==
    LET lo == IF a < Len(s) THEN a ELSE Len(s)
        hi == IF b < Len(s) THEN b ELSE Len(s)
    IN  IF hi <= lo THEN <<>> ELSE SubSeq(s, lo + 1, hi)

\* s[a:]
SliceFrom(s, a) == Slice(s, a, Len(s))

\* s.ljust(n, bytes([b]))
LJust(s, n, b) ==
    IF Len(s) >= n THEN s ELSE s \o [i \in 1..(n - Len(s)) |-> b]

Frame(id, data) == [id |-> id, data |-> data]

-----------------------------------------------------------------------------
(* SLCANAdapter, seen from SimpleISOTP as a channel of CAN frames *)

\* send_frame(can_id, data): the record is written and True returned (ok), or
\* there is no serial port or serial.write raised and False is returned
send_frame(log, can_id, data, ok) ==
    IF ok THEN Append(log, Frame(can_id, data)) ELSE log

\* the characters of SLCAN records: one-character strings, "\r" the record end
HexChars == <<"0", "1", "2", "3", "4", "5", "6", "7",
              "8", "9", "A", "B", "C", "D", "E", "F">>
CR == "\r"

\* f'{n:01X}' for n < 16, f'{b:02X}' for a byte, f'{can_id:03X}' for an 11-bit id
Hex1Str(n) == <<HexChars[n + 1]>>
Hex2Str(b) == <<HexChars[(b \div 16) + 1], HexChars[(b % 16) + 1]>>
Hex3Str(n) == <<HexChars[(n \div 256) + 1]>> \o Hex2Str(n % 256)

RECURSIVE HexJoin(_)
\* ''.join(f'{b:02X}' for b in data)
HexJoin(data) ==
    IF data = <<>> THEN <<>> ELSE Hex2Str(Head(data)) \o HexJoin(Tail(data))

\* (a variant that writes the identifier with f'{can_id:02X}')
SlcanRecordShortId(can_id, data) ==
    <<"t">> \o (IF can_id < 256 THEN Hex2Str(can_id) ELSE Hex3Str(can_id))
            \o Hex1Str(Len(data)) \o HexJoin(data) \o <<CR>>

\* the record of a standard frame: tIIILDD...DD\r
SlcanRecord(can_id, data) ==
    <<"t">> \o Hex3Str(can_id) \o Hex1Str(Len(data)) \o HexJoin(data) \o <<CR>>

IsHexChar(c) == \E n \in 1..16 : HexChars[n] = c
HexValue(c) == (CHOOSE n \in 1..16 : HexChars[n] = c) - 1
IsHexStr(str) == \A i \in 1..Len(str) : IsHexChar(str[i])

RECURSIVE HexInt(_)
\* int(str, 16), str being hexadecimal digits
HexInt(str) ==
    IF str = <<>> THEN 0
    ELSE 16 * HexInt(SubSeq(str, 1, Len(str) - 1)) + HexValue(str[Len(str)])

\* bytes.fromhex(str), str being an even number of hexadecimal digits
FromHex(str) ==
    [i \in 1..(Len(str) \div 2) |->
        16 * HexValue(str[2 * i - 1]) + HexValue(str[2 * i])]

NoFrame == [none |-> TRUE, id |-> 0, data |-> <<>>]
ParsedFrame(can_id, data) == [none |-> FALSE, id |-> can_id, data |-> data]

\* _parse_frame with id_len identifier digits; every exception gives None
ParseWithId(frame_str, id_len) ==
    LET id_str == Slice(frame_str, 1, 1 + id_len)
        hex_from == 2 + id_len
    IN  IF Len(frame_str) < 2 + id_len THEN NoFrame
        ELSE IF ~IsHexStr(id_str) \/ ~IsHexChar(frame_str[1 + id_len + 1])
        THEN NoFrame
        ELSE LET length == HexValue(frame_str[1 + id_len + 1])
                 digits == Slice(frame_str, hex_from, hex_from + length * 2)
             IN  IF ~IsHexStr(digits) \/ Len(digits) % 2 # 0 THEN NoFrame
                 ELSE ParsedFrame(HexInt(id_str), FromHex(digits))

\* _parse_frame
_parse_frame(frame) ==
    IF Len(frame) < 5 THEN NoFrame
    ELSE IF frame[1] = "t" THEN ParseWithId(frame, 3)
    ELSE IF frame[1] = "T" THEN ParseWithId(frame, 8)
    ELSE NoFrame

\* buffer.index(b'\r'), counted from 1
IndexOfCR(buffer) == CHOOSE i \in 1..Len(buffer) :
                        buffer[i] = CR /\ \A j \in 1..(i - 1) : buffer[j] # CR

RECURSIVE ScanRecords(_)
\* receive_frame's inner loop `while b'\r' in buffer`: the first record that
\* parses is the result; otherwise the buffer that is left
ScanRecords(buffer) ==
    IF \A i \in 1..Len(buffer) : buffer[i] # CR
    THEN [result |-> NoFrame, buffer |-> buffer]
    ELSE LET idx == IndexOfCR(buffer)
             result == _parse_frame(SubSeq(buffer, 1, idx - 1))
             rest == SubSeq(buffer, idx + 1, Len(buffer))
         IN  IF ~result.none THEN [result |-> result, buffer |-> rest]
             ELSE ScanRecords(rest)

\* what serial.write wrote: the characters, and for a frame record the
\* (can_id, data) send_frame was called with
Command(chars) == [chars |-> chars, frame |-> NoFrame]
FrameRecord(chars, can_id, data) ==
    [chars |-> chars, frame |-> ParsedFrame(can_id, data)]

\* send_frame(can_id, data) on the adapter p: False without a serial port or
\* when serial.write raises (~ok), else the record is written
send_frame_record(p, can_id, data, ok) ==
    IF p.handle = "open" /\ ok
    THEN [p EXCEPT !.written = Append(@, FrameRecord(SlcanRecord(can_id, data),
                                                     can_id, data)),
                   !.last = "send_frame:True"]
    ELSE [p EXCEPT !.last = "send_frame:False"]

RECURSIVE DecStr(_)
\* f'{n}' for n >= 0
DecStr(n) ==
    IF n < 10 THEN <<HexChars[n + 1]>>
    ELSE DecStr(n \div 10) \o <<HexChars[(n % 10) + 1]>>

CMD_OPEN == <<"O", CR>>
CMD_CLOSE == <<"C", CR>>
CMD_SPEED_500K == <<"S", "6", CR>>
CMD_SPEED_250K == <<"S", "5", CR>>

\* open: the record that sets the CAN speed
SpeedCommand(can_speed) ==
    IF can_speed = 500 THEN CMD_SPEED_500K
    ELSE IF can_speed = 250 THEN CMD_SPEED_250K
    ELSE <<"S">> \o DecStr(can_speed \div 100) \o <<CR>>

\* how open() can go: serial.Serial raises; the first, second or third
\* serial.write raises; the adapter answers with the bell; no error
OpenOutcomes == {"no_port", "write1", "write2", "write3", "bell", "ok"}

\* open(can_speed) on the adapter p
open(p, can_speed, how) ==
    LET records == <<Command(CMD_CLOSE), Command(SpeedCommand(can_speed)),
                     Command(CMD_OPEN)>>
        n == IF how \in {"no_port", "write1"} THEN 0
             ELSE IF how = "write2" THEN 1
             ELSE IF how = "write3" THEN 2
             ELSE 3
    IN  [p EXCEPT !.handle = IF how = "no_port" THEN "none" ELSE "open",
                  !.serial = IF how = "no_port" THEN @ ELSE <<>>,
                  !.written = @ \o SubSeq(records, 1, n),
                  !.last = IF how = "ok" THEN "open:True" ELSE "open:False"]

\* (a variant that leaves self.serial set)
close_keeps_serial(p, ok) ==
    IF p.handle = "open"
    THEN [p EXCEPT !.written = IF ok THEN Append(@, Command(CMD_CLOSE)) ELSE @,
                   !.last = "close"]
    ELSE [p EXCEPT !.last = "close"]

\* close() on the adapter p; serial.write may raise (~ok), which is swallowed
close(p, ok) ==
    IF p.handle = "open"
    THEN [p EXCEPT !.written = IF ok THEN Append(@, Command(CMD_CLOSE)) ELSE @,
                   !.handle = "none",
                   !.last = "close"]
    ELSE [p EXCEPT !.last = "close"]

-----------------------------------------------------------------------------
(* SimpleISOTP.send_receive: the frames of the request *)

\* (a variant that pads with 0x00 instead of 0xCC)
SingleFrameZeroPad(data) == LJust(<<Len(data)>> \o data, 8, 0)

\* bytes([len(data)]) + data, padded to 8 with 0xCC
SingleFrame(data) == LJust(<<Len(data)>> \o data, 8, PadByte)

\* bytes([0x10 | ((len(data) >> 8) & 0x0F), len(data) & 0xFF]) + data[:6]
FirstFrame(data) ==
    <<16 + ((Len(data) \div 256) % 16), Len(data) % 256>> \o Slice(data, 0, 6)

\* bytes([0x20 | (seq & 0x0F)]) + remaining[:7], padded to 8 with 0xCC
ConsecutiveFrame(seq, rem) ==
    LJust(<<32 + (seq % 16)>> \o Slice(rem, 0, 7), 8, PadByte)

\* (a variant that wraps 15 -> 1, skipping 0)
NextSeqSkipsZero(seq) == (seq % 15) + 1

\* seq = (seq + 1) & 0x0F
NextSeq(seq) == (seq + 1) % 16

\* time.sleep(fc['st_min'] / 1000.0) when fc['st_min'] > 0, in microseconds
StMinSleep(st_min) == IF st_min > 0 THEN st_min * 1000 ELSE 0

\* the Flow Control frame _receive_response answers a First Frame with
FlowControlFrame == <<48, 0, 0, PadByte, PadByte, PadByte, PadByte, PadByte>>

-----------------------------------------------------------------------------
(* SimpleISOTP._wait_for_flow_control: one frame of the loop *)

NoFc == [got |-> FALSE, status |-> 0, block_size |-> 0, st_min |-> 0]

\* (a variant that does not compare can_id with rx_id)
_wait_for_flow_control_any_id(result, rx_id) ==
    IF Len(result.data) >= 3 /\ (result.data[1] \div 16) * 16 = 48
    THEN [got |-> TRUE, status |-> result.data[1] % 16,
          block_size |-> result.data[2], st_min |-> result.data[3]]
    ELSE NoFc

\* the dict returned for `result`, or NoFc when the loop just goes on
_wait_for_flow_control(result, rx_id) ==
    IF result.id = rx_id /\ Len(result.data) >= 3
       /\ (result.data[1] \div 16) * 16 = 48
    THEN [got |-> TRUE, status |-> result.data[1] % 16,
          block_size |-> result.data[2], st_min |-> result.data[3]]
    ELSE NoFc

-----------------------------------------------------------------------------
(* SimpleISOTP._receive_response *)

\* the locals before the loop: buffer = b'', expected_length = 0, seq = 1
RxInit == [buffer |-> <<>>, expected_length |-> 0, seq |-> 1]

\* (a variant that returns the buffer with the last frame's padding)
ReassembledUntruncated(buffer, expected_length) == buffer

\* buffer[:expected_length] once len(buffer) >= expected_length
Reassembled(buffer, expected_length) == Slice(buffer, 0, expected_length)

\* (a variant in which a frame that is none of Single, First, Consecutive
\* Frame starts the reassembly afresh)
_receive_response_fc_resets(st, result, rx_id) ==
    LET data == result.data
        go(st2, fcs) == [st |-> st2, ret |-> None, sendFc |-> fcs, crash |-> FALSE]
    IN
    IF result.id # rx_id THEN go(st, FALSE)
    ELSE IF Len(data) = 0
    THEN [st |-> st, ret |-> None, sendFc |-> FALSE, crash |-> TRUE]
    ELSE LET pci_type == (data[1] \div 16) * 16 IN
    IF pci_type = 0
    THEN [st |-> st, ret |-> Some(Slice(data, 1, 1 + (data[1] % 16)), "single"),
          sendFc |-> FALSE, crash |-> FALSE]
    ELSE IF pci_type = 16
    THEN IF Len(data) < 2
         THEN [st |-> st, ret |-> None, sendFc |-> FALSE, crash |-> TRUE]
         ELSE go([buffer |-> SliceFrom(data, 2),
                  expected_length |-> (data[1] % 16) * 256 + data[2],
                  seq |-> 1], TRUE)
    ELSE IF pci_type = 32
    THEN IF data[1] % 16 = st.seq
         THEN LET buffer == st.buffer \o SliceFrom(data, 1)
                  st2 == [buffer |-> buffer,
                          expected_length |-> st.expected_length,
                          seq |-> (st.seq + 1) % 16]
              IN  IF Len(buffer) >= st.expected_length
                  THEN [st |-> st2,
                        ret |-> Some(Reassembled(buffer, st.expected_length),
                                     "reassembled"),
                        sendFc |-> FALSE, crash |-> FALSE]
                  ELSE go(st2, FALSE)
         ELSE go(st, FALSE)
    ELSE go(RxInit, FALSE)

\* One iteration of the loop on the frame `result` that receive_frame
\* returned: the locals after it (st), the value returned (ret, None while
\* the loop goes on), whether a Flow Control frame is sent (sendFc), and
\* whether data[0] or data[1] raised IndexError (crash).
_receive_response(st, result, rx_id) ==
    LET data == result.data
        go(st2, fcs) == [st |-> st2, ret |-> None, sendFc |-> fcs, crash |-> FALSE]
    IN
    IF result.id # rx_id THEN go(st, FALSE)
    ELSE IF Len(data) = 0
    THEN [st |-> st, ret |-> None, sendFc |-> FALSE, crash |-> TRUE]
    ELSE LET pci_type == (data[1] \div 16) * 16 IN
    IF pci_type = 0
    THEN [st |-> st, ret |-> Some(Slice(data, 1, 1 + (data[1] % 16)), "single"),
          sendFc |-> FALSE, crash |-> FALSE]
    ELSE IF pci_type = 16
    THEN IF Len(data) < 2
         THEN [st |-> st, ret |-> None, sendFc |-> FALSE, crash |-> TRUE]
         ELSE go([buffer |-> SliceFrom(data, 2),
                  expected_length |-> (data[1] % 16) * 256 + data[2],
                  seq |-> 1], TRUE)
    ELSE IF pci_type = 32
    THEN IF data[1] % 16 = st.seq
         THEN LET buffer == st.buffer \o SliceFrom(data, 1)
                  st2 == [buffer |-> buffer,
                          expected_length |-> st.expected_length,
                          seq |-> (st.seq + 1) % 16]
              IN  IF Len(buffer) >= st.expected_length
                  THEN [st |-> st2,
                        ret |-> Some(Reassembled(buffer, st.expected_length),
                                     "reassembled"),
                        sendFc |-> FALSE, crash |-> FALSE]
                  ELSE go(st2, FALSE)
         ELSE go(st, FALSE)
    ELSE go(st, FALSE)

\* the deadline passed: return buffer if buffer else None
_receive_response_expired(st) ==
    IF st.buffer # <<>> THEN Some(st.buffer, "expired") ELSE None

-----------------------------------------------------------------------------
(* SimpleUDSClient.send_request: what becomes of send_receive's value *)

\* f"{nrc:02X}": the two hex digits of a byte, as the numbers 0..15
Hex2(b) == <<b \div 16, b % 16>>

\* how a call ends: `kind` is "return" or the exception raised, `hex` the NRC
\* digits in the message of Exception("Negative response: <name> (0x<hex>)")
NoOutcome == [kind |-> "none", hex |-> <<>>, data |-> <<>>]
Raised(what, digits) == [kind |-> what, hex |-> digits, data |-> <<>>]
Returned(data) == [kind |-> "return", hex |-> <<>>, data |-> data]

\* (a variant whose negative-response test is len(response) > 3)
send_request_lenient(resp) ==
    IF resp.none THEN Raised("TimeoutError", <<>>)
    ELSE IF Len(resp.bytes) > 3 /\ resp.bytes[1] = NRC_RESPONSE
    THEN Raised("NegativeResponse", Hex2(resp.bytes[3]))
    ELSE Returned(resp.bytes)

send_request(resp) ==
    IF resp.none THEN Raised("TimeoutError", <<>>)
    ELSE IF Len(resp.bytes) >= 3 /\ resp.bytes[1] = NRC_RESPONSE
    THEN Raised("NegativeResponse", Hex2(resp.bytes[3]))
    ELSE Returned(resp.bytes)

-----------------------------------------------------------------------------
(* The inputs *)

\* requests of the client: ReadDataByIdentifier 22 F1 90 (a Single Frame) and
\* WriteDataByIdentifier 2E F1 90 01..06 (a First Frame and one Consecutive
\* Frame)
\* read_data_by_identifier: the request for `did`
read_data_by_identifier_request(did) == <<34, did \div 256, did % 256>>

\* read_data_by_identifier: what it returns when send_request returned resp
read_data_by_identifier(resp) ==
    IF Len(resp) > 3 THEN SliceFrom(resp, 3) ELSE <<>>

\* tester_present: the request
tester_present_request == <<62, 0>>

\* (a variant that puts the low byte of the group first)
clear_dtc_information_request_le(group) ==
    <<20, group % 256, (group \div 256) % 256, (group \div 65536) % 256>>

\* clear_dtc_information: the request for `group`
clear_dtc_information_request(group) ==
    <<20, (group \div 65536) % 256, (group \div 256) % 256, group % 256>>

\* clear_dtc_information: the default of `group`
DefaultGroup == 16777215

\* the bytes the groups of the model are made of
GroupBytes == {0, 18, 255}

ClearDtcGroups ==
    { hi * 65536 + mid * 256 + lo : hi \in GroupBytes, mid \in GroupBytes,
                                    lo \in GroupBytes } \cup {DefaultGroup}

UdsRequests ==
    { read_data_by_identifier_request(61840),             \* DID F190
      tester_present_request,
      <<46, 241, 144, 1, 2, 3, 4, 5, 6>>,                 \* FF + 1 CF
      <<46, 241, 144, 1, 2, 3, 4, 5, 6, 7, 8, 9, 10, 11>> }  \* FF + 2 CF

\* what the bus may deliver to the adapter
BusFrames ==
    { Frame(RxId, <<4, 98, 241, 144, 65, PadByte, PadByte, PadByte>>),   \* 62 F1 90 41
      Frame(RxId, <<3, 127, 34, 120, PadByte, PadByte, PadByte, PadByte>>), \* 7F 22 78
      Frame(RxId, <<3, 127, 34, 49, PadByte, PadByte, PadByte, PadByte>>),  \* 7F 22 31
      Frame(RxId, <<3, 127, 34, 127, PadByte, PadByte, PadByte, PadByte>>), \* 7F 22 7F
      Frame(RxId, <<3, 127, 46, 19, PadByte, PadByte, PadByte, PadByte>>),  \* 7F 2E 13
      Frame(RxId, <<2, 80, 3, PadByte, PadByte, PadByte, PadByte, PadByte>>), \* 50 03
      Frame(RxId, <<16, 10, 98, 241, 144, 49, 50, 51>>),   \* First Frame, 10 bytes
      Frame(RxId, <<33, 52, 53, 54, 55, PadByte, PadByte, PadByte>>), \* CF 1
      Frame(RxId, <<34, 56, 57, 58, 59, PadByte, PadByte, PadByte>>), \* CF 2
      Frame(RxId, <<48, 0, 0, PadByte, PadByte, PadByte, PadByte, PadByte>>), \* FC Continue
      Frame(RxId, <<49, 0, 0, PadByte, PadByte, PadByte, PadByte, PadByte>>), \* FC Wait
      Frame(RxId, <<50, 0, 0, PadByte, PadByte, PadByte, PadByte, PadByte>>), \* FC Abort
      Frame(RxId, <<48, 1, 241, PadByte, PadByte, PadByte, PadByte, PadByte>>), \* FC BS=1 STmin=F1
      Frame(RxId, <<48, 0, 128, PadByte, PadByte, PadByte, PadByte, PadByte>>), \* FC STmin=80
      Frame(RxId, <<4, 98, 241, 145, 66, PadByte, PadByte, PadByte>>),   \* 62 F1 91 42
      Frame(RxId, <<2, 127, 34, PadByte, PadByte, PadByte, PadByte, PadByte>>), \* 7F 22
      Frame(RxId + 1, <<4, 98, 241, 144, 66, PadByte, PadByte, PadByte>>), \* another ECU
      Frame(RxId + 1, <<48, 0, 0, PadByte, PadByte, PadByte, PadByte, PadByte>>), \* its FC
      Frame(RxId, <<>>),                                    \* t7E80
      Frame(RxId, <<16>>) }                                 \* t7E8110

\* the payload of `len` bytes that starts at byte 199 * seed and counts up
Payload(len, seed) == [i \in 1..len |-> (199 * seed + i - 1) % 256]

Payloads ==
    { Payload(len, seed) : len \in (1..MaxShortLen) \cup {LongLen},
                           seed \in 0..MaxSeed }

-----------------------------------------------------------------------------
(* The state after construction *)

\* the Single Frame carrying the positive response to request r
IsPositiveResponseFrame(f, r) ==
    /\ f.id = RxId
    /\ Len(f.data) >= 2
    /\ f.data[1] \div 16 = 0
    /\ f.data[1] % 16 >= 1
    /\ f.data[2] = r[1] + 64

NoLate == [pending |-> FALSE, returned |-> FALSE]

\* SLCANAdapter(port, baudrate): self.serial is None (handle), nothing was
\* written, no method has returned yet (last)
PortInit == [serial |-> <<>>, reading |-> FALSE, buffer |-> <<>>,
             returned |-> <<>>, arrived |-> <<>>,
             handle |-> "none", written |-> <<>>, last |-> "none"]

\* the adapter after open() has returned True
PortOpen == [PortInit EXCEPT !.handle = "open"]

NoTaken == [foreign |-> FALSE, flow |-> FALSE]

NoCall == [method |-> "send_request", group |-> 0]

\* main() before adapter.open: --can-speed has its default; history: open
\* returned True (opened), how the try block was left (exit), send_frame
\* calls made (calls), what had been written and received when close
\* returned (atClose, returnedAtClose), a send_frame call made after it
MainInit == [pc |-> "start", can_speed |-> 500, opened |-> FALSE,
             exit |-> "none", calls |-> 0, atClose |-> 0,
             returnedAtClose |-> 0, probed |-> FALSE]

\* elm327_slcan_demo.main() before connect_slcan: arguments have their
\* defaults, transport = None; extended is what enter_extended_session
\* returned; elapsed and count are time.time() - start and count of
\* tester_present_loop; presents counts the calls of client.tester_present
DemoInit == [pc |-> "start", keep_alive |-> 0, skip_pids |-> FALSE,
             transport |-> FALSE, extended |-> "unknown", elapsed |-> 0,
             count |-> 0, presents |-> 0, exit |-> "none", closed |-> FALSE]

PeerInit == [st |-> RxInit, pos |-> 0, ret |-> None, done |-> FALSE,
             crashed |-> FALSE, fcCount |-> 0]

\* SimpleISOTP(adapter, tx_id, rx_id) and SimpleUDSClient(isotp), no call yet
ClientInit ==
    /\ pc = "idle"
    /\ req = <<>>
    /\ reqCount = 0
    /\ remaining = <<>>
    /\ txseq = 1
    /\ fc = NoFc
    /\ rx = RxInit
    /\ response = None
    /\ outcome = NoOutcome
    /\ sent = <<>>
    /\ rxq = <<>>
    /\ delivered = 0
    /\ ffSeen = FALSE
    /\ ffAcked = FALSE
    /\ cfAccepted = 0
    /\ badSeq = FALSE
    /\ pendings = 0
    /\ late = NoLate
    /\ slept = 0
    /\ peer = PeerInit
    /\ taken = NoTaken

Init ==
    /\ ClientInit
    /\ port = PortInit
    /\ call = NoCall
    /\ main = MainInit
    /\ demo = DemoInit

-----------------------------------------------------------------------------
(* The client: send_request -> send_receive -> _receive_response *)

\* 7F <SID> 78, requestCorrectlyReceivedResponsePending
IsResponsePending(resp) ==
    ~resp.none /\ Len(resp.bytes) >= 3 /\ resp.bytes[1] = NRC_RESPONSE
    /\ resp.bytes[3] = 120

\* receive_frame hands over the oldest frame in the adapter; `returns` says
\* that this frame made send_receive return a response
TakeFrame(l, returns) ==
    [pending |-> FALSE, returned |-> (l.pending /\ returns)]

\* send_receive returns resp and send_request returns or raises
Finish(resp) ==
    /\ response' = resp
    /\ outcome' = send_request(resp)
    /\ pendings' = IF IsResponsePending(resp) THEN pendings + 1 ELSE pendings
    /\ pc' = "done"

\* _receive_response is entered: its locals are initialised
EnterReceive ==
    /\ pc' = "recv"
    /\ rx' = RxInit

\* send_request(data) is called: send_receive writes the Single Frame or the
\* First Frame
call_send_request(R, calls) ==
    /\ pc \in {"idle", "done"}
    /\ reqCount < calls
    /\ \E data \in R, ok \in BOOLEAN :
        /\ req' = data
        /\ reqCount' = reqCount + 1
        /\ remaining' = <<>>
        /\ txseq' = 1
        /\ fc' = NoFc
        /\ ffSeen' = FALSE
        /\ ffAcked' = FALSE
        /\ cfAccepted' = 0
        /\ badSeq' = FALSE
        /\ late' = [pending |-> IF outcome.kind = "TimeoutError"
                                    /\ sent # <<>> /\ rxq # <<>>
                                 THEN IsPositiveResponseFrame(Head(rxq), req)
                                 ELSE FALSE,
                    returned |-> FALSE]
        /\ slept' = 0
        /\ rx' = RxInit
        /\ sent' = send_frame(<<>>, TxId,
                              IF Len(data) <= 7 THEN SingleFrame(data)
                                                ELSE FirstFrame(data), ok)
        /\ IF ok
           THEN /\ pc' = IF Len(data) <= 7 THEN "recv" ELSE "wait_fc"
                /\ response' = None
                /\ outcome' = NoOutcome
                /\ pendings' = 0
           ELSE /\ response' = None
                /\ outcome' = send_request(None)
                /\ pendings' = 0
                /\ pc' = "done"
    /\ UNCHANGED <<rxq, delivered, peer>>
    /\ taken' = NoTaken
    /\ UNCHANGED call
    /\ UNCHANGED <<port, main, demo>>

\* _wait_for_flow_control: receive_frame returned a frame
wait_for_flow_control_frame ==
    /\ pc = "wait_fc"
    /\ rxq # <<>>
    /\ rxq' = Tail(rxq)
    /\ LET r == _wait_for_flow_control(Head(rxq), RxId) IN
        IF r.got
        THEN /\ fc' = r
             /\ remaining' = SliceFrom(req, 6)
             /\ txseq' = 1
             /\ pc' = "send_cf"
        ELSE UNCHANGED <<fc, remaining, txseq, pc>>
    /\ late' = TakeFrame(late, FALSE)
    /\ UNCHANGED <<req, reqCount, rx, response, outcome, sent, delivered,
                   ffSeen, ffAcked, cfAccepted, badSeq, pendings, slept, peer>>
    /\ UNCHANGED taken
    /\ UNCHANGED call
    /\ UNCHANGED <<port, main, demo>>

\* _wait_for_flow_control: the deadline passed, it returns None
wait_for_flow_control_expired ==
    /\ pc = "wait_fc"
    /\ Finish(None)
    /\ UNCHANGED <<req, reqCount, remaining, txseq, fc, rx, sent, rxq,
                   delivered, ffSeen, ffAcked, cfAccepted, badSeq, late, slept,
                   peer>>
    /\ UNCHANGED <<taken, call>>
    /\ UNCHANGED <<port, main, demo>>

\* send_receive: one pass of `while remaining`
send_consecutive_frame ==
    /\ pc = "send_cf"
    /\ \E ok \in BOOLEAN :
        /\ sent' = send_frame(sent, TxId, ConsecutiveFrame(txseq, remaining), ok)
        /\ IF ok
           THEN /\ remaining' = SliceFrom(remaining, 7)
                /\ txseq' = NextSeq(txseq)
                /\ IF remaining' = <<>>
                   THEN EnterReceive
                   ELSE UNCHANGED <<pc, rx>>
                /\ slept' = StMinSleep(fc.st_min)
                /\ UNCHANGED <<response, outcome, pendings>>
           ELSE /\ Finish(None)
                /\ UNCHANGED <<remaining, txseq, rx, slept>>
    /\ UNCHANGED <<req, reqCount, fc, rxq, delivered, ffSeen, ffAcked,
                   cfAccepted, badSeq, late, peer>>
    /\ UNCHANGED <<taken, call>>
    /\ UNCHANGED <<port, main, demo>>

IsConsecutiveFrame(f) == f.id = RxId /\ Len(f.data) >= 1 /\ f.data[1] \div 16 = 2
IsFlowControlFrame(f) == f.id = RxId /\ Len(f.data) >= 1 /\ f.data[1] \div 16 = 3

\* _receive_response: receive_frame returned a frame
receive_response_frame ==
    /\ pc = "recv"
    /\ rxq # <<>>
    /\ rxq' = Tail(rxq)
    /\ LET f == Head(rxq)
           r == _receive_response(rx, f, RxId)
       IN
        /\ rx' = r.st
        /\ \E ok \in (IF r.sendFc THEN BOOLEAN ELSE {TRUE}) :
            /\ sent' = IF r.sendFc
                       THEN send_frame(sent, TxId, FlowControlFrame, ok)
                       ELSE sent
            /\ ffAcked' = IF r.sendFc THEN ok ELSE ffAcked
        /\ ffSeen' = (ffSeen \/ r.sendFc)
        /\ cfAccepted' =
              IF r.sendFc THEN 0
              ELSE IF IsConsecutiveFrame(f) /\ f.data[1] % 16 = rx.seq
              THEN cfAccepted + 1
              ELSE cfAccepted
        /\ badSeq' = (badSeq \/ (ffSeen /\ IsConsecutiveFrame(f)
                                 /\ f.data[1] % 16 # rx.seq))
        /\ IF r.crash
           THEN /\ pc' = "done"
                /\ outcome' = Raised("IndexError", <<>>)
                /\ UNCHANGED <<response, pendings>>
           ELSE IF ~r.ret.none
           THEN Finish(r.ret)
           ELSE UNCHANGED <<pc, response, outcome, pendings>>
        /\ late' = TakeFrame(late, ~r.crash /\ ~r.ret.none)
    /\ UNCHANGED <<req, reqCount, remaining, txseq, fc, delivered, slept, peer>>
    /\ taken' = IF rx.buffer = <<>> THEN taken
                ELSE [foreign |-> (taken.foreign \/ Head(rxq).id # RxId),
                      flow |-> (taken.flow \/ IsFlowControlFrame(Head(rxq)))]
    /\ UNCHANGED call
    /\ UNCHANGED <<port, main, demo>>

\* (a variant whose deadline never passes while the adapter has no frame)
receive_response_never_expires ==
    /\ pc = "recv"
    /\ rxq = <<>>
    /\ UNCHANGED vars

\* _receive_response: the deadline passed
receive_response_expired ==
    /\ pc = "recv"
    /\ Finish(_receive_response_expired(rx))
    /\ UNCHANGED <<req, reqCount, remaining, txseq, fc, rx, sent, rxq,
                   delivered, ffSeen, ffAcked, cfAccepted, badSeq, late, slept,
                   peer>>
    /\ UNCHANGED <<taken, call>>
    /\ UNCHANGED <<port, main, demo>>

-----------------------------------------------------------------------------
(* The bus and the ECU: any frame, at any time *)

\* frames waiting in the adapter
MaxQueue == 1

bus_deliver ==
    /\ delivered < MaxFrames
    /\ Len(rxq) < MaxQueue
    /\ \E f \in BusFrames : rxq' = Append(rxq, f)
    /\ delivered' = delivered + 1
    /\ UNCHANGED <<pc, req, reqCount, remaining, txseq, fc, rx, response,
                   outcome, sent, ffSeen, ffAcked, cfAccepted, badSeq, pendings,
                   late, slept, peer>>
    /\ UNCHANGED <<taken, call>>
    /\ UNCHANGED <<port, main, demo>>

Next ==
    \/ call_send_request(UdsRequests, MaxRequests)
    \/ wait_for_flow_control_frame
    \/ wait_for_flow_control_expired
    \/ send_consecutive_frame
    \/ receive_response_frame
    \/ receive_response_expired
    \/ bus_deliver

Spec == Init /\ [][Next]_vars

-----------------------------------------------------------------------------
(* SimpleUDSClient.clear_dtc_information(group), one call per behaviour *)

InitClearDtc ==
    /\ ClientInit
    /\ port = PortInit
    /\ call \in { [method |-> "clear_dtc_information", group |-> g] :
                     g \in ClearDtcGroups }
    /\ main = MainInit
    /\ demo = DemoInit

call_clear_dtc_information ==
    /\ call.method = "clear_dtc_information"
    /\ call_send_request({clear_dtc_information_request(call.group)}, 1)

NextClearDtc ==
    \/ call_clear_dtc_information
    \/ receive_response_frame
    \/ receive_response_expired
    \/ bus_deliver

SpecClearDtc == InitClearDtc /\ [][NextClearDtc]_vars

-----------------------------------------------------------------------------
(* The bus without end: frames keep coming for as long as the client runs, *)
(* and time advances, so that every deadline passes and every step of the  *)
(* send loop is taken                                                       *)

\* frames the client writes for one request before the ECU stops sending
\* First Frames
MaxSent == 3

\* what the bus delivers without end: responses, the frames of a segmented
\* response, Flow Control frames, another ECU's frames, a frame without data
StreamFrames ==
    { f \in BusFrames :
        \/ f.id # RxId
        \/ f.data = <<>>
        \/ /\ f.id = RxId
           /\ Len(f.data) = 8
           /\ Slice(f.data, 0, 4) \in { <<4, 98, 241, 144>>, <<3, 127, 34, 120>>,
                                        <<16, 10, 98, 241>>, <<33, 52, 53, 54>>,
                                        <<34, 56, 57, 58>>,
                                        <<48, 0, 0, PadByte>>,
                                        <<49, 0, 0, PadByte>>,
                                        <<50, 0, 0, PadByte>>,
                                        <<48, 1, 241, PadByte>>,
                                        <<48, 0, 128, PadByte>> } }

\* the bus hands the adapter one more frame
bus_stream ==
    /\ Len(rxq) < MaxQueue
    /\ \E f \in StreamFrames :
        /\ (f.id = RxId /\ Len(f.data) >= 1 /\ f.data[1] \div 16 = 1)
           => Len(sent) < MaxSent
        /\ rxq' = Append(rxq, f)
    /\ UNCHANGED <<pc, req, reqCount, remaining, txseq, fc, rx, response,
                   outcome, sent, delivered, ffSeen, ffAcked, cfAccepted,
                   badSeq, pendings, late, slept, peer>>
    /\ UNCHANGED <<taken, call>>
    /\ UNCHANGED <<port, main, demo>>

NextLive ==
    \/ call_send_request(UdsRequests, 1)
    \/ wait_for_flow_control_frame
    \/ wait_for_flow_control_expired
    \/ send_consecutive_frame
    \/ receive_response_frame
    \/ receive_response_expired
    \/ bus_stream

SpecLive ==
    /\ Init
    /\ [][NextLive]_vars
    /\ WF_vars(wait_for_flow_control_expired)
    /\ WF_vars(send_consecutive_frame)
    /\ WF_vars(receive_response_expired)

-----------------------------------------------------------------------------
(* Loop-back: the frames the send path writes are read, in order, by the   *)
(* receive path of a second SimpleISOTP(adapter, tx_id = RxId, rx_id =     *)
(* TxId); its Flow Control frames come back to the sender.                 *)

\* the peer's _receive_response: receive_frame returned the next frame written
peer_receive_response_frame ==
    /\ ~peer.done
    /\ peer.pos < Len(sent)
    /\ LET r == _receive_response(peer.st, sent[peer.pos + 1], TxId) IN
        \E ok \in (IF r.sendFc THEN BOOLEAN ELSE {TRUE}) :
            /\ rxq' = IF r.sendFc
                      THEN send_frame(rxq, RxId, FlowControlFrame, ok)
                      ELSE rxq
            /\ peer' = [st |-> r.st,
                        pos |-> peer.pos + 1,
                        ret |-> r.ret,
                        done |-> (r.crash \/ ~r.ret.none),
                        crashed |-> r.crash,
                        fcCount |-> IF r.sendFc /\ ok THEN peer.fcCount + 1
                                    ELSE peer.fcCount]
    /\ UNCHANGED <<pc, req, reqCount, remaining, txseq, fc, rx, response,
                   outcome, sent, delivered, ffSeen, ffAcked, cfAccepted,
                   badSeq, pendings, late, slept>>
    /\ UNCHANGED <<taken, call>>
    /\ UNCHANGED <<port, main, demo>>

\* the peer's _receive_response: the deadline passed
peer_receive_response_expired ==
    /\ ~peer.done
    /\ peer' = [peer EXCEPT !.ret = _receive_response_expired(peer.st),
                            !.done = TRUE]
    /\ UNCHANGED <<pc, req, reqCount, remaining, txseq, fc, rx, response,
                   outcome, sent, rxq, delivered, ffSeen, ffAcked,
                   cfAccepted, badSeq, pendings, late, slept>>
    /\ UNCHANGED <<taken, call>>
    /\ UNCHANGED <<port, main, demo>>

NextLoop ==
    \/ call_send_request(Payloads, 1)
    \/ wait_for_flow_control_frame
    \/ wait_for_flow_control_expired
    \/ send_consecutive_frame
    \/ receive_response_expired
    \/ peer_receive_response_frame
    \/ peer_receive_response_expired

SpecLoop == Init /\ [][NextLoop]_vars

-----------------------------------------------------------------------------
(* Loop-back of requests that do not fit the 12-bit length of a First Frame *)

OversizeLen == 4096

OversizePayloads ==
    { Payload(len, seed) : len \in {OversizeLen, OversizeLen + 1},
                           seed \in 0..MaxSeed }

NextOversize ==
    \/ call_send_request(OversizePayloads, 1)
    \/ wait_for_flow_control_frame
    \/ wait_for_flow_control_expired
    \/ send_consecutive_frame
    \/ receive_response_expired
    \/ peer_receive_response_frame
    \/ peer_receive_response_expired

SpecOversize == Init /\ [][NextOversize]_vars

-----------------------------------------------------------------------------
(* The SLCAN adapter alone: records reach the serial port, receive_frame is *)
(* called again and again                                                    *)

MaxRecords == 3
ReadSize == 100

\* the frames whose records the CAN side writes to the port
WireFrames ==
    { Frame(RxId, <<2, 80, 3>>),
      Frame(RxId, <<16, 10, 98, 241, 144, 49, 50, 51>>),
      Frame(RxId + 1, <<>>) }

\* what reaches the port that is no frame: the adapter's answer to a command
WireNoise == { <<"z", CR>> }

isotpVars == <<pc, req, reqCount, remaining, txseq, fc, rx, response, outcome,
               sent, rxq, delivered, ffSeen, ffAcked, cfAccepted, badSeq,
               pendings, late, slept, peer, taken, call>>

\* the record of a frame reaches the port
port_frame_arrives ==
    /\ Len(port.arrived) < MaxRecords
    /\ \E f \in WireFrames :
        port' = [port EXCEPT !.serial = @ \o SlcanRecord(f.id, f.data),
                             !.arrived = Append(@, f)]
    /\ UNCHANGED isotpVars
    /\ UNCHANGED <<main, demo>>

\* characters that are no frame record reach the port
port_noise_arrives ==
    /\ \A i \in 1..Len(port.serial) : port.serial[i] # "z"
    /\ \E n \in WireNoise : port' = [port EXCEPT !.serial = @ \o n]
    /\ UNCHANGED isotpVars
    /\ UNCHANGED <<main, demo>>

\* receive_frame is called: buffer = b''
receive_frame_call ==
    /\ ~port.reading
    /\ port.handle = "open"
    /\ port' = [port EXCEPT !.reading = TRUE, !.buffer = <<>>]
    /\ UNCHANGED isotpVars
    /\ UNCHANGED <<main, demo>>

\* receive_frame: serial.read(100) returned a chunk
receive_frame_read ==
    /\ port.reading
    /\ port.serial # <<>>
    /\ LET chunk == Slice(port.serial, 0, ReadSize)
           r == ScanRecords(port.buffer \o chunk)
       IN  port' = [port EXCEPT
                      !.serial = SliceFrom(@, ReadSize),
                      !.reading = r.result.none,
                      !.buffer = r.buffer,
                      !.last = IF r.result.none THEN @
                               ELSE "receive_frame:frame",
                      !.returned = IF r.result.none THEN @
                                   ELSE Append(@, Frame(r.result.id,
                                                        r.result.data))]
    /\ UNCHANGED isotpVars
    /\ UNCHANGED <<main, demo>>

\* receive_frame: the deadline passed with nothing more to read
receive_frame_expired ==
    /\ port.reading
    /\ port.serial = <<>>
    /\ port' = [port EXCEPT !.reading = FALSE, !.last = "receive_frame:None"]
    /\ UNCHANGED isotpVars
    /\ UNCHANGED <<main, demo>>

NextAdapter ==
    \/ port_frame_arrives
    \/ port_noise_arrives
    \/ receive_frame_call
    \/ receive_frame_read
    \/ receive_frame_expired

InitAdapter ==
    /\ ClientInit
    /\ port = PortOpen
    /\ call = NoCall
    /\ main = MainInit
    /\ demo = DemoInit

SpecAdapter == InitAdapter /\ [][NextAdapter]_vars

-----------------------------------------------------------------------------
(* send_frame and _parse_frame: what one writes, the other reads *)

\* the largest standard CAN identifier and the most data bytes of a frame
MaxCanId == 2047
MaxDataLen == 8

\* data of every length, counting up from four first bytes
CodecData ==
    { [i \in 1..len |-> (b + 17 * (i - 1)) % 256] :
        len \in 0..MaxDataLen, b \in {0, 15, 160, 250} }

\* send_frame(can_id, data) is called on the open adapter
call_send_frame ==
    /\ port.written = <<>>
    /\ \E can_id \in 0..MaxCanId, data \in CodecData, ok \in BOOLEAN :
        port' = send_frame_record(port, can_id, data, ok)
    /\ UNCHANGED isotpVars
    /\ UNCHANGED <<main, demo>>

NextCodec == call_send_frame

SpecCodec == InitAdapter /\ [][NextCodec]_vars

-----------------------------------------------------------------------------
(* slcan_uds_standalone.main(): open, run_demo, close *)

\* send_frame calls run_demo makes in one behaviour
MaxCalls == 2

\* --can-speed
CanSpeeds == {125, 250, 500, 1000}

\* the first requests of run_demo, as Single Frames
MainFrames ==
    { SingleFrame(<<16, 3>>),
      SingleFrame(read_data_by_identifier_request(61840)) }

InitMain ==
    /\ ClientInit
    /\ port = PortInit
    /\ call = NoCall
    /\ main \in { [MainInit EXCEPT !.can_speed = s] : s \in CanSpeeds }
    /\ demo = DemoInit

\* adapter.open(args.can_speed); sys.exit(1) when it returns False; a
\* KeyboardInterrupt inside open leaves the adapter as a failed write does
main_open ==
    /\ main.pc = "start"
    /\ \E how \in OpenOutcomes, interrupted \in BOOLEAN :
        /\ port' = open(port, main.can_speed, how)
        /\ main' = IF how = "ok"
                   THEN [main EXCEPT !.pc = "demo", !.opened = TRUE]
                   ELSE [main EXCEPT
                           !.pc = "finally",
                           !.exit = IF interrupted /\ how # "bell"
                                    THEN "interrupt" ELSE "sys.exit"]
    /\ UNCHANGED isotpVars
    /\ UNCHANGED demo

\* run_demo: a request frame is handed to adapter.send_frame
main_send_frame ==
    /\ main.pc = "demo"
    /\ ~port.reading
    /\ main.calls < MaxCalls
    /\ \E data \in MainFrames, ok \in BOOLEAN :
        port' = send_frame_record(port, TxId, data, ok)
    /\ main' = [main EXCEPT !.calls = @ + 1]
    /\ UNCHANGED isotpVars
    /\ UNCHANGED demo

\* run_demo: adapter.receive_frame is called
main_receive_frame ==
    /\ main.pc = "demo"
    /\ receive_frame_call

\* the ECU answers once while the program runs: one record reaches the port
main_frame_arrives ==
    /\ port.arrived = <<>>
    /\ port_frame_arrives

\* the try block is left: run_demo returned, KeyboardInterrupt, or an
\* exception; a receive_frame call in progress is abandoned
main_leave_try ==
    /\ main.pc = "demo"
    /\ \E how \in {"normal", "interrupt", "exception"} :
        /\ how = "normal" => ~port.reading
        /\ main' = [main EXCEPT !.pc = "finally", !.exit = how]
    /\ port' = [port EXCEPT !.reading = FALSE]
    /\ UNCHANGED isotpVars
    /\ UNCHANGED demo

\* finally: adapter.close()
main_finally ==
    /\ main.pc = "finally"
    /\ \E ok \in BOOLEAN :
        /\ port' = close(port, ok)
        /\ main' = [main EXCEPT !.pc = "closed",
                                !.atClose = Len(port'.written),
                                !.returnedAtClose = Len(port.returned)]
    /\ UNCHANGED isotpVars
    /\ UNCHANGED demo

\* send_frame is called on the adapter after close()
closed_send_frame ==
    /\ main.pc = "closed"
    /\ ~main.probed
    /\ ~port.reading
    /\ \E data \in MainFrames, ok \in BOOLEAN :
        port' = send_frame_record(port, TxId, data, ok)
    /\ main' = [main EXCEPT !.probed = TRUE]
    /\ UNCHANGED isotpVars
    /\ UNCHANGED demo

\* receive_frame is called on the adapter after close()
closed_receive_frame ==
    /\ main.pc = "closed"
    /\ ~port.reading
    /\ port.last # "receive_frame:None"
    /\ port' = IF port.handle = "open"
               THEN [port EXCEPT !.reading = TRUE, !.buffer = <<>>]
               ELSE [port EXCEPT !.last = "receive_frame:None"]
    /\ UNCHANGED isotpVars
    /\ UNCHANGED <<main, demo>>

NextMain ==
    \/ main_open
    \/ main_send_frame
    \/ main_receive_frame
    \/ receive_frame_read
    \/ receive_frame_expired
    \/ main_frame_arrives
    \/ main_leave_try
    \/ main_finally
    \/ closed_send_frame
    \/ closed_receive_frame

SpecMain == InitMain /\ [][NextMain]_vars

-----------------------------------------------------------------------------
(* elm327_slcan_demo.main(): connect, session, reads, keep-alive, close *)

\* --keep-alive, in whole seconds
MaxKeepAlive == 5

\* time.sleep(2.0) after every TesterPresent
SleepSeconds == 2

\* seconds one client.tester_present() call may take
MaxRequestSeconds == 1

InitDemo ==
    /\ ClientInit
    /\ port = PortInit
    /\ call = NoCall
    /\ main = MainInit
    /\ demo \in { [DemoInit EXCEPT !.keep_alive = k, !.skip_pids = s] :
                   k \in 0..MaxKeepAlive, s \in BOOLEAN }

\* the steps of the try block a KeyboardInterrupt can end
DemoSteps == {"session", "identification", "pids", "dtcs", "keep_alive"}

\* transport = connect_slcan(...): ConnectionError when open() fails
demo_connect ==
    /\ demo.pc = "start"
    /\ \E ok \in BOOLEAN :
        demo' = IF ok
                THEN [demo EXCEPT !.pc = "session", !.transport = TRUE]
                ELSE [demo EXCEPT !.pc = "finally",
                                  !.exit = "connection_error"]
    /\ UNCHANGED isotpVars
    /\ UNCHANGED <<port, main>>

\* if not enter_extended_session(client): print a warning, go on; an
\* exception other than NegativeResponseError leaves the try block
demo_enter_extended_session ==
    /\ demo.pc = "session"
    /\ \E r \in {"positive", "negative", "error"} :
        demo' = CASE r = "positive" ->
                       [demo EXCEPT !.pc = "identification",
                                    !.extended = "yes"]
                  [] r = "negative" ->
                       [demo EXCEPT !.pc = "identification",
                                    !.extended = "no"]
                  [] OTHER ->
                       [demo EXCEPT !.pc = "finally", !.exit = "exception"]
    /\ UNCHANGED isotpVars
    /\ UNCHANGED <<port, main>>

\* read_identification(client); then read_live_pids unless --skip-pids
demo_read_identification ==
    /\ demo.pc = "identification"
    /\ demo' = [demo EXCEPT !.pc = IF demo.skip_pids THEN "dtcs" ELSE "pids"]
    /\ UNCHANGED isotpVars
    /\ UNCHANGED <<port, main>>

\* read_live_pids(client)
demo_read_live_pids ==
    /\ demo.pc = "pids"
    /\ demo' = [demo EXCEPT !.pc = "dtcs"]
    /\ UNCHANGED isotpVars
    /\ UNCHANGED <<port, main>>

\* read_and_clear_dtcs(client, ...); then if args.keep_alive > 0 the call
\* of tester_present_loop up to its while
demo_read_and_clear_dtcs ==
    /\ demo.pc = "dtcs"
    /\ demo' = IF demo.keep_alive > 0
               THEN [demo EXCEPT !.pc = "keep_alive", !.elapsed = 0,
                                 !.count = 0]
               ELSE [demo EXCEPT !.pc = "finally", !.exit = "normal"]
    /\ UNCHANGED isotpVars
    /\ UNCHANGED <<port, main>>

\* tester_present_loop: one pass of the while body
demo_tester_present ==
    /\ demo.pc = "keep_alive"
    /\ demo.elapsed < demo.keep_alive
    /\ \E ok \in BOOLEAN, d \in 0..MaxRequestSeconds :
        demo' = IF ok
                THEN [demo EXCEPT !.presents = @ + 1, !.count = @ + 1,
                                  !.elapsed = @ + d + SleepSeconds]
                ELSE [demo EXCEPT !.presents = @ + 1, !.pc = "finally",
                                  !.exit = "normal"]
    /\ UNCHANGED isotpVars
    /\ UNCHANGED <<port, main>>

\* tester_present_loop: the while condition is false, main goes on to the
\* end of its try block
demo_keep_alive_ends ==
    /\ demo.pc = "keep_alive"
    /\ demo.elapsed >= demo.keep_alive
    /\ demo' = [demo EXCEPT !.pc = "finally", !.exit = "normal"]
    /\ UNCHANGED isotpVars
    /\ UNCHANGED <<port, main>>

\* except KeyboardInterrupt
demo_interrupt ==
    /\ demo.pc \in DemoSteps
    /\ demo' = [demo EXCEPT !.pc = "finally", !.exit = "interrupt"]
    /\ UNCHANGED isotpVars
    /\ UNCHANGED <<port, main>>

\* finally: if transport: transport.close()
demo_finally ==
    /\ demo.pc = "finally"
    /\ demo' = [demo EXCEPT !.pc = "exit", !.closed = demo.transport]
    /\ UNCHANGED isotpVars
    /\ UNCHANGED <<port, main>>

NextDemo ==
    \/ demo_connect
    \/ demo_enter_extended_session
    \/ demo_read_identification
    \/ demo_read_live_pids
    \/ demo_read_and_clear_dtcs
    \/ demo_tester_present
    \/ demo_keep_alive_ends
    \/ demo_interrupt
    \/ demo_finally

SpecDemo == InitDemo /\ [][NextDemo]_vars

-----------------------------------------------------------------------------
(* Properties *)

\* C1: a negative response with NRC 0x78 (response pending) is never
\* surfaced to the caller of send_request: no call ends with the negative
\* response error for NRC 0x78.
C1_PendingNeverSurfaced ==
    ~(pc = "done" /\ outcome.kind = "NegativeResponse" /\ outcome.hex = <<7, 8>>)

\* C2: k response-pending responses followed by a positive response complete
\* the request iff k < max_pending_responses (10): a call that ended on a
\* response-pending while the positive response follows it in the adapter
\* has been handed at least 10 of them.
C2_CompletesIffFewerThanMaxPending ==
    ( /\ pc = "done"
      /\ outcome.kind = "NegativeResponse" /\ outcome.hex = <<7, 8>>
      /\ rxq # <<>> /\ IsPositiveResponseFrame(Head(rxq), req) )
    => pendings >= 10

\* C3: a negative response 7F <SID> <NRC>, NRC other than 0x78, makes
\* send_request raise the negative-response error carrying that NRC byte,
\* and no value send_request returns is such a negative response.
C3_NegativeResponseRaised ==
    /\ ( /\ pc = "done"
         /\ ~response.none
         /\ Len(response.bytes) >= 3
         /\ response.bytes[1] = 127
         /\ response.bytes[3] # 120 )
       => /\ outcome.kind = "NegativeResponse"
          /\ Len(outcome.hex) = 2
          /\ 16 * outcome.hex[1] + outcome.hex[2] = response.bytes[3]
    /\ outcome.kind = "return"
       => ~(Len(outcome.data) >= 3 /\ outcome.data[1] = 127)

\* C3 happens: the ECU answered 7F 22 31 in a Single Frame and the call
\* raised the negative-response error with NRC 0x31
C3_Witness ==
    /\ pc = "done"
    /\ response = [none |-> FALSE, bytes |-> <<127, 34, 49>>, via |-> "single"]
    /\ outcome.kind = "NegativeResponse"
    /\ outcome.hex = <<3, 1>>

\* C4: a request completes successfully only if the first byte of the
\* response is the request SID + 0x40.
C4_PositiveResponseEchoesSid ==
    (pc = "done" /\ outcome.kind = "return")
    => (Len(outcome.data) >= 1 /\ outcome.data[1] = req[1] + 64)

\* the send path wrote the First Frame and every Consecutive Frame of req
SendComplete ==
    /\ Len(req) >= 8
    /\ pc \in {"recv", "done"}
    /\ fc.got
    /\ remaining = <<>>

\* C5: for a payload of 8 bytes or more, once the receive path has read every
\* frame the send path wrote (First Frame, then the Consecutive Frames, in
\* order) it has delivered exactly the payload, without the padding, and has
\* emitted exactly one Flow Control frame.
C5_MultiFrameRoundTrip ==
    (SendComplete /\ peer.pos = Len(sent))
    => /\ peer.done
       /\ peer.ret = [none |-> FALSE, bytes |-> req, via |-> "reassembled"]
       /\ peer.fcCount = 1

\* C5 happens: a payload that needs the length's high nibble and whose last
\* frame is padded was reassembled
C5_Witness ==
    /\ SendComplete
    /\ Len(req) >= 256
    /\ (Len(req) - 6) % 7 # 0
    /\ peer.done
    /\ peer.ret.bytes = req
    /\ peer.fcCount = 1

\* byte i (1-based) of the Single Frame the claim describes for payload P:
\* [0x0N, P..., 0xCC...]
ExpectedSingleFrameByte(P, i) ==
    IF i = 1 THEN Len(P) ELSE IF i <= Len(P) + 1 THEN P[i - 1] ELSE 204

\* C6: for a payload P of 1 to 7 bytes the send path writes exactly one
\* frame, the 8 bytes [0x0N, P..., 0xCC...] with N = len(P), and the receive
\* path applied to that frame delivers exactly P.
C6_SingleFrameRoundTrip ==
    (reqCount = 1 /\ Len(req) >= 1 /\ Len(req) <= 7)
    => /\ Len(sent) <= 1
       /\ (pc = "recv" => Len(sent) = 1)
       /\ Len(sent) = 1
          => /\ sent[1].id = TxId
             /\ Len(sent[1].data) = 8
             /\ \A i \in 1..8 :
                    sent[1].data[i] = ExpectedSingleFrameByte(req, i)
       /\ peer.pos = 1
          => /\ peer.done
             /\ peer.ret = [none |-> FALSE, bytes |-> req, via |-> "single"]

\* C6 happens: a 7-byte payload went out in one frame and came back
C6_Witness ==
    /\ Len(req) = 7
    /\ Len(sent) = 1
    /\ peer.done
    /\ peer.ret.bytes = req

\* C7: the Consecutive Frames written after the First Frame carry the
\* sequence numbers 1, 2, ..., 15, 0, 1, ...: the k-th one carries k mod 16.
C7_SequenceNumbers ==
    (reqCount = 1 /\ Len(req) >= 8)
    => \A i \in 1..Len(sent) :
          /\ Len(sent[i].data) = 8
          /\ IF i = 1
             THEN sent[i].data[1] \div 16 = 1
             ELSE sent[i].data[1] = 32 + ((i - 1) % 16)

\* C7 happens: the sequence number wrapped from 15 to 0 and went on to 1
C7_Witness ==
    /\ Len(req) >= 8
    /\ Len(sent) >= 18
    /\ sent[17].data[1] = 32
    /\ sent[18].data[1] = 33

\* C8: a Consecutive Frame with a wrong sequence number aborts the request:
\* after such a frame the request never completes with a reassembled payload.
C8_WrongSequenceAborts ==
    ~(badSeq /\ pc = "done" /\ outcome.kind = "return"
      /\ response.via = "reassembled")

\* C9: no Consecutive Frame data is accepted for a message whose First Frame
\* was not acknowledged by a successfully sent Flow Control frame.
C9_FirstFrameAcknowledged ==
    (ffSeen /\ cfAccepted > 0) => ffAcked

\* C10: the sender transmits Consecutive Frames only once it has received a
\* Flow Control frame with status Continue (0): none after Abort, none after
\* Wait until a Continue arrives.
C10_ConsecutiveOnlyAfterContinue ==
    (Len(req) >= 8 /\ Len(sent) >= 2 /\ sent[2].data[1] \div 16 = 2)
    => (fc.got /\ fc.status = 0)

\* the Consecutive Frames send_receive has written for the current request
ConsecutiveFramesSent ==
    Cardinality({ i \in 1..Len(sent) :
                    /\ sent[i].id = TxId
                    /\ Len(sent[i].data) >= 1
                    /\ sent[i].data[1] \div 16 = 2 })

\* C11: when the Flow Control frame announces a BlockSize greater than zero,
\* the sender transmits at most that many Consecutive Frames on the strength
\* of it (send_receive reads exactly one Flow Control frame per request).
C11_BlockSizeRespected ==
    (fc.got /\ fc.block_size > 0) => ConsecutiveFramesSent <= fc.block_size

\* C12: a response that was still incomplete when the deadline passed is
\* never returned to the caller as the result of the request.
C12_PartialNeverReturned ==
    ~(pc = "done" /\ response.via = "expired" /\ outcome.kind = "return")

\* C13: when the write of the first request frame fails, the request ends
\* with a transport error, which is not the timeout error.
C13_WriteFailureIsTransportError ==
    (pc = "done" /\ reqCount > 0 /\ sent = <<>>)
    => (outcome.kind = "TransportError" /\ outcome.kind # "TimeoutError")

\* C14: the positive response to a request that timed out, reaching the
\* adapter before the next request is sent, is never returned as the result
\* of that next request when its first byte is not the positive response to
\* the next request's service.
C14_LateResponseDiscarded ==
    ~(/\ pc = "done"
      /\ late.returned
      /\ outcome.kind = "return"
      /\ response.bytes # <<>>
      /\ response.bytes[1] # req[1] + 64)

\* C15: TesterPresent goes out as 3E 80, and when no frame arrives before
\* the deadline the call reports success.
C15_TesterPresentSuppressed ==
    (pc = "done" /\ req = tester_present_request /\ sent # <<>>)
    => (/\ Slice(sent[1].data, 0, 3) = <<2, 62, 128>>
        /\ (response.none => outcome.kind = "return"))

\* C16: read_data_by_identifier returns data only when bytes 1..2 of the
\* response are the requested identifier.
C16_IdentifierEchoed ==
    (/\ pc = "done"
     /\ req[1] = 34
     /\ outcome.kind = "return"
     /\ read_data_by_identifier(outcome.data) # <<>>)
    => (outcome.data[2] = req[2] /\ outcome.data[3] = req[3])

\* C17: a response of fewer than three bytes to ReadDataByIdentifier, or a
\* negative response of fewer than three bytes, is never returned as a
\* result.
C17_ShortResponseRejected ==
    (/\ pc = "done"
     /\ ~response.none
     /\ Len(response.bytes) < 3
     /\ \/ req[1] = 34
        \/ (response.bytes # <<>> /\ response.bytes[1] = NRC_RESPONSE))
    => outcome.kind # "return"

\* the separation time the STmin byte v stands for, in microseconds
SeparationTime(v) ==
    IF v <= 127 THEN v * 1000
    ELSE IF v >= 241 /\ v <= 249 THEN (v - 240) * 100
    ELSE 0

\* C20: after a Consecutive Frame the sender waits the separation time the
\* STmin byte of the Flow Control frame stands for: v ms for 00..7F,
\* (v - F0) x 100 us for F1..F9, nothing for any other value.
C20_SeparationTimeDecoded ==
    (fc.got /\ ConsecutiveFramesSent > 0) => slept = SeparationTime(fc.st_min)

\* the 12-bit length field of the First Frame f
FirstFrameLength(f) == (f.data[1] % 16) * 256 + f.data[2]

\* C18: a request of more than 4095 bytes is rejected before any frame is
\* sent, and the length field of every First Frame sent is the length of the
\* request.
C18_LengthFitsFirstFrame ==
    /\ (pc # "idle" /\ Len(req) > 4095) => sent = <<>>
    /\ (pc # "idle" /\ Len(req) > 7 /\ sent # <<>>)
       => FirstFrameLength(sent[1]) = Len(req)

\* C19: receive_frame hands over the frames in the order their records
\* arrived and loses none: once every character has been read and no call is
\* running, the frames returned are the frames that arrived.
C19_FramesInOrderNoneLost ==
    (port.serial = <<>> /\ ~port.reading) => port.returned = port.arrived

\* C26: a response is returned to the caller of send_request only after a
\* Single Frame or a First Frame was received on rx_id during that call.
C26_ResponseNeedsSingleOrFirstFrame ==
    (pc = "done" /\ outcome.kind = "return")
    => (response.via = "single" \/ ffSeen)

\* C27: send_request ends only in a returned response, a timeout, a negative
\* response or a protocol error, whatever frame the adapter hands over.
C27_OnlyDefinedOutcomes ==
    pc = "done"
    => outcome.kind \in {"return", "TimeoutError", "NegativeResponse",
                         "ProtocolError"}

C28_FlowControlIgnoredWhileReceiving ==
    [][(/\ pc = "recv"
        /\ rxq # <<>>
        /\ IsFlowControlFrame(Head(rxq))
        /\ rxq' = Tail(rxq))
       => UNCHANGED <<pc, rx, sent, response, outcome>>]_vars

\* a multi-frame response was reassembled and returned although a Flow
\* Control frame was handed over between its frames
C28_Witness ==
    /\ pc = "done"
    /\ taken.flow
    /\ ~taken.foreign
    /\ ffSeen
    /\ outcome.kind = "return"
    /\ response.via = "reassembled"
    /\ response.bytes = <<98, 241, 144, 49, 50, 51, 52, 53, 54, 55>>

\* C24: every send_request call that has started ends, by returning or by
\* raising, whatever the bus delivers and for however long.
C24_SendRequestEnds ==
    (pc \in {"wait_fc", "send_cf", "recv"}) ~> (pc = "done")

\* a call ended in TimeoutError while frames of another CAN id kept coming
C24_Witness ==
    /\ pc = "done"
    /\ outcome.kind = "TimeoutError"
    /\ sent # <<>>
    /\ Len(req) > 7
    /\ rxq # <<>>
    /\ Head(rxq).id # RxId

\* C21: clear_dtc_information(group) sends the four bytes 14 hh mm ll whose
\* last three read as a big-endian number are the group, in one Single
\* Frame; for the default group they are 14 FF FF FF.
C21_ClearDtcEncodesGroup ==
    (pc # "idle" /\ call.method = "clear_dtc_information")
    => /\ Len(req) = 4
       /\ req[1] = 20
       /\ \A i \in 2..4 : req[i] \in 0..255
       /\ req[2] * 65536 + req[3] * 256 + req[4] = call.group
       /\ call.group = 16777215 => req = <<20, 255, 255, 255>>
       /\ sent # <<>>
          => sent[1] = Frame(TxId, <<4>> \o req \o <<PadByte, PadByte, PadByte>>)

\* the request for group 0012FF went out as 04 14 00 12 FF
C21_Witness ==
    /\ pc = "recv"
    /\ call = [method |-> "clear_dtc_information", group |-> 4863]
    /\ Len(sent) = 1
    /\ Slice(sent[1].data, 0, 5) = <<4, 20, 0, 18, 255>>

\* C29: the record send_frame writes for a standard frame is 't', three
\* hexadecimal digits of the identifier, one of the length, two per data
\* byte and a carriage return, and _parse_frame of the record without the
\* carriage return gives back the identifier and the data.
C29_SlcanRoundTrip ==
    \A i \in 1..Len(port.written) :
        LET w == port.written[i]
            n == Len(w.chars)
        IN  ~w.frame.none
            => /\ n = 1 + 3 + 1 + 2 * Len(w.frame.data) + 1
               /\ w.chars[1] = "t"
               /\ w.chars[n] = CR
               /\ \A k \in 2..(n - 1) : IsHexChar(w.chars[k])
               /\ HexInt(SubSeq(w.chars, 2, 4)) = w.frame.id
               /\ HexInt(<<w.chars[5]>>) = Len(w.frame.data)
               /\ _parse_frame(SubSeq(w.chars, 1, n - 1)) = w.frame

\* the frame 7FF with eight data bytes FA 0B .. 71 was written
C29_Witness ==
    /\ port.last = "send_frame:True"
    /\ Len(port.written) = 1
    /\ port.written[1].frame.id = 2047
    /\ port.written[1].frame.data = <<250, 11, 28, 45, 62, 79, 96, 113>>
    /\ SubSeq(port.written[1].chars, 1, 9) = <<"t", "7", "F", "F", "8", "F", "A", "0", "B">>

\* C30: when open(can_speed) has succeeded it has written the records close,
\* bitrate, open in that order, the bitrate record being S and one digit
\* 0..8: S8 for 1000 kbps, S6 for 500, S5 for 250.
C30_OpenRecords ==
    main.opened
    => /\ Len(port.written) >= 3
       /\ port.written[1].chars = <<"C", CR>>
       /\ port.written[3].chars = <<"O", CR>>
       /\ \E n \in 0..8 : port.written[2].chars = <<"S", HexChars[n + 1], CR>>
       /\ main.can_speed = 1000 => port.written[2].chars = <<"S", "8", CR>>
       /\ main.can_speed = 500 => port.written[2].chars = <<"S", "6", CR>>
       /\ main.can_speed = 250 => port.written[2].chars = <<"S", "5", CR>>

\* C23: a frame record is written only after open has returned True and its
\* three records; when main has run its finally block the adapter has no
\* serial port, whichever way the try block was left; from then on nothing
\* is written or received: send_frame returns False and receive_frame None.
C23_ChannelScoped ==
    /\ \A i \in 1..Len(port.written) :
          ~port.written[i].frame.none => (main.opened /\ i > 3)
    /\ main.exit # "none" => main.pc \in {"finally", "closed"}
    /\ main.pc = "closed"
       => /\ port.handle = "none"
          /\ ~port.reading
          /\ Len(port.written) = main.atClose
          /\ Len(port.returned) = main.returnedAtClose
          /\ port.last \in {"close", "send_frame:False", "receive_frame:None"}

\* main was interrupted after a frame had been written, close wrote C, and
\* a send_frame call made afterwards returned False with a record waiting
C23_Witness ==
    /\ main.pc = "closed"
    /\ main.opened
    /\ main.exit = "interrupt"
    /\ main.probed
    /\ port.last = "send_frame:False"
    /\ Len(port.written) = 5
    /\ ~port.written[4].frame.none
    /\ port.written[5].chars = <<"C", CR>>
    /\ port.serial # <<>>

\* C22: when the request to enter the extended session failed, the
\* keep-alive loop calls client.tester_present() not once.
C22_KeepAliveOnlyInSession ==
    demo.extended = "no" => demo.presents = 0

=============================================================================
